---- MODULE Spec2Model ----
(***************************************************************************)
(* A model of tsh.c, a tiny shell with job control: the job list, the     *)
(* read/eval loop (eval, do_bgfg, waitfg) and the signal handlers that    *)
(* preempt it (sigchld_handler, sigint_handler, sigtstp_handler).         *)
(***************************************************************************)
EXTENDS Integers, Sequences, FiniteSets, TLC

\* ---------------------------------------------------------------- bounds
\* Capacity of the shell's job list.  tsh.c sets it to 16; the model scales
\* it down.  The array has MAXJOBS entries, and every loop over it and the
\* wraparound of nextjid take the capacity from the array (Capacity).
MAXJOBS == 2
\* Capacity of the job list that the job list driver works on.
DriverJobs == 4
\* Capacity of the job list of the shell whose progress is checked.
FairJobs == 1
\* Process ids the operating system hands out are 1..MaxPid; fork fails when
\* all of them belong to children that have not been reaped.
MaxPid == 3
\* The pid arguments of the job list driver are 0..MaxPidArg.
MaxPidArg == 2
\* The job list driver stops calling addjob once nextjid has grown more than
\* this far past MAXJOBS (nextjid is otherwise unbounded there).
MaxJidOver == 1

\* ------------------------------------------------------ program constants
UNDEF == 0
FG == 1
BG == 2
ST == 3

Pids == 1..MaxPid

VARIABLES
    jobs,       \* static volatile struct Job jobs[MAXJOBS]
    nextjid,    \* static int nextjid
    call,       \* the job list driver's last call: its arguments and what it returned
    pc,         \* where the read/eval loop of main is
    cmd,        \* the command being evaluated: "none", "run", "runbg", "fg", "bg"
    mpid,       \* eval's local pid, then waitfg's argument pid
    currjob,    \* do_bgfg's local currjob (a slot, 0 for NULL)
    target,     \* the job do_bgfg's lookup found, as it was then (history)
    blocked,    \* whether main's signal mask holds SIGCHLD (sigprocmask in eval)
    pending,    \* the signals pending for the shell
    hstack,     \* the signal handlers in progress, innermost last
    procs,      \* the shell's children, by process id
    out,        \* the line the shell's last statement wrote to stdout (NoLine: none)
    sent        \* the signal the shell's last statement sent with kill (NoSignal: none)

tableVars == <<jobs, nextjid>>

\* No job looked up: do_bgfg is not running, or is past its last use of currjob.
NoTarget == [pid |-> 0, jid |-> 0, state |-> UNDEF, cmdline |-> ""]
mainVars == <<pc, cmd, mpid, currjob, target, blocked>>

\* A line of output: which message it is and the values printed into it.
Line(kind, jid, pid, sig, cmdline) ==
    [kind |-> kind, jid |-> jid, pid |-> pid, sig |-> sig, cmdline |-> cmdline]

NoLine == Line("none", 0, 0, "", "")

\* kill(-pid, sig): the signal and the pid whose negation is the target.
Signal(sig, pid) == [sig |-> sig, pid |-> pid]

NoSignal == Signal("none", 0)

\* A statement of main or of a handler's body that writes nothing and sends
\* nothing.  The steps of the children, and the waitpid with which
\* sigchld_handler starts, leave out and sent as they are.
Silent == out' = NoLine /\ sent' = NoSignal

\* The signals that terminate a child, and those that stop one.
TermSignals == {"INT", "KILL"}

StopSignals == {"TSTP", "STOP"}

\* The two command lines the model types: "c\n" and "c &\n".
CmdLine(bg) == IF bg THEN "c &" ELSE "c"

\* ------------------------------------------------------------ the job list

Capacity(js) == Len(js)

EmptyJobs(n) == [i \in 1..n |-> [pid |-> 0, jid |-> 0, state |-> UNDEF, cmdline |-> ""]]

\* clearjob without job->pid = 0.
clearjob_KeepsPid(job) == [pid |-> job.pid, jid |-> 0, state |-> UNDEF, cmdline |-> ""]

clearjob(job) == [pid |-> 0, jid |-> 0, state |-> UNDEF, cmdline |-> ""]

initjobs(js) == [i \in DOMAIN js |-> clearjob(js[i])]

SetMax(S) == IF S = {} THEN 0 ELSE CHOOSE m \in S : \A x \in S : x <= m

SetMin(S) == CHOOSE m \in S : \A x \in S : m <= x

maxjid(js) == SetMax({js[i].jid : i \in DOMAIN js} \cup {0})

\* The slot addjob's loop stops at: the first one with pid == 0 (0: none).
FirstFree(js) ==
    LET free == {i \in DOMAIN js : js[i].pid = 0}
    IN  IF free = {} THEN 0 ELSE SetMin(free)

\* The slot the pid loops (deletejob, getjobpid, pid2jid) stop at (0: none).
FirstPid(js, pid) ==
    LET hit == {i \in DOMAIN js : js[i].pid = pid}
    IN  IF pid < 1 \/ hit = {} THEN 0 ELSE SetMin(hit)

\* addjob with nextjid++ done before a free slot is found.
addjob_CountsFirst(js, nj, pid, state, cmdline) ==
    LET i == FirstFree(js)
        n == IF nj + 1 > Capacity(js) THEN 1 ELSE nj + 1
    IN  IF pid < 1
        THEN [ok |-> FALSE, jobs |-> js, nextjid |-> nj, jid |-> 0]
        ELSE IF i = 0
        THEN [ok |-> FALSE, jobs |-> js, nextjid |-> n, jid |-> 0]
        ELSE [ok |-> TRUE,
              jobs |-> [js EXCEPT ![i] = [pid |-> pid, jid |-> nj,
                                          state |-> state, cmdline |-> cmdline]],
              nextjid |-> n,
              jid |-> nj]

\* printf("Tried to create too many jobs\n") of addjob
TooMany(js, pid) ==
    IF pid >= 1 /\ FirstFree(js) = 0 THEN Line("toomany", 0, 0, "", "") ELSE NoLine

addjob(js, nj, pid, state, cmdline) ==
    LET i == FirstFree(js)
    IN  IF pid < 1 \/ i = 0
        THEN [ok |-> FALSE, jobs |-> js, nextjid |-> nj, jid |-> 0]
        ELSE [ok |-> TRUE,
              jobs |-> [js EXCEPT ![i] = [pid |-> pid, jid |-> nj,
                                          state |-> state, cmdline |-> cmdline]],
              nextjid |-> IF nj + 1 > Capacity(js) THEN 1 ELSE nj + 1,
              jid |-> nj]

\* deletejob with initjobs(jobs) in place of clearjob(&jobs[i]).
deletejob_ClearsAll(js, nj, pid) ==
    LET i == FirstPid(js, pid)
    IN  IF i = 0
        THEN [ok |-> FALSE, jobs |-> js, nextjid |-> nj]
        ELSE [ok |-> TRUE, jobs |-> initjobs(js), nextjid |-> 1]

\* deletejob without nextjid = maxjid(jobs) + 1.
deletejob_NoRebase(js, nj, pid) ==
    LET i == FirstPid(js, pid)
    IN  IF i = 0
        THEN [ok |-> FALSE, jobs |-> js, nextjid |-> nj]
        ELSE [ok |-> TRUE, jobs |-> [js EXCEPT ![i] = clearjob(js[i])], nextjid |-> nj]

\* deletejob without if (pid < 1) return (false).
deletejob_NoGuard(js, nj, pid) ==
    LET hit == {i \in DOMAIN js : js[i].pid = pid}
    IN  IF hit = {}
        THEN [ok |-> FALSE, jobs |-> js, nextjid |-> nj]
        ELSE LET cleared == [js EXCEPT ![SetMin(hit)] = clearjob(js[SetMin(hit)])]
             IN  [ok |-> TRUE, jobs |-> cleared, nextjid |-> maxjid(cleared) + 1]

deletejob(js, nj, pid) ==
    LET i == FirstPid(js, pid)
    IN  IF i = 0
        THEN [ok |-> FALSE, jobs |-> js, nextjid |-> nj]
        ELSE LET cleared == [js EXCEPT ![i] = clearjob(js[i])]
             IN  [ok |-> TRUE, jobs |-> cleared, nextjid |-> maxjid(cleared) + 1]

fgpid(js) ==
    LET fg == {i \in DOMAIN js : js[i].state = FG}
    IN  IF fg = {} THEN 0 ELSE js[SetMin(fg)].pid

\* A JobP is modelled by the index of the slot it points to, NULL by 0.
getjobpid(js, pid) == FirstPid(js, pid)

getjobjid(js, jid) ==
    LET hit == {i \in DOMAIN js : js[i].jid = jid}
    IN  IF jid < 1 \/ hit = {} THEN 0 ELSE SetMin(hit)

\* pid2jid returning the index of the slot in place of its jid.
pid2jid_Index(js, pid) == FirstPid(js, pid)

pid2jid(js, pid) ==
    LET i == FirstPid(js, pid)
    IN  IF i = 0 THEN 0 ELSE js[i].jid

Live(js) == {i \in DOMAIN js : js[i].pid # 0}

\* ---------------------------------------------------------- initial state

\* op and pid: the call; ok: what it returned; jid: the job id addjob gave
\* or the one deletejob freed; prevmax: for an addjob that follows a
\* deletejob of the job with the largest job id, that job id (0 otherwise).
NoCall == [op |-> "none", pid |-> 0, ok |-> FALSE, jid |-> 0, prevmax |-> 0]

InitWith(n) ==
    /\ jobs = initjobs(EmptyJobs(n))
    /\ nextjid = 1
    /\ call = NoCall
    /\ pc = "prompt"
    /\ cmd = "none"
    /\ mpid = 0
    /\ currjob = 0
    /\ target = NoTarget
    /\ blocked = FALSE
    /\ pending = {}
    /\ hstack = <<>>
    /\ procs = [p \in Pids |-> "none"]
    /\ out = NoLine
    /\ sent = NoSignal

Init == InitWith(MAXJOBS)

InitJobs == InitWith(DriverJobs)

vars == <<jobs, nextjid, call, pc, cmd, mpid, currjob, target, blocked, pending, hstack, procs, out, sent>>

\* ------------------------------------------- the job list driven directly
\* Any sequence of addjob and deletejob calls, with every argument the
\* functions accept (pid < 1 and a pid that is already in the list included).

PidArgs == 0..MaxPidArg

JobsAdd(p, state, cmdline) ==
    /\ nextjid <= Capacity(jobs) + MaxJidOver
    /\ LET r == addjob(jobs, nextjid, p, state, cmdline)
       IN  /\ jobs' = r.jobs
           /\ nextjid' = r.nextjid
           /\ call' = [op |-> "add", pid |-> p, ok |-> r.ok, jid |-> r.jid,
                       prevmax |-> IF /\ call.op = "delete" /\ call.ok
                                      /\ call.jid >= maxjid(jobs)
                                   THEN call.jid ELSE 0]
    /\ out' = TooMany(jobs, p)
    /\ sent' = NoSignal
    /\ UNCHANGED <<mainVars, pending, hstack, procs>>

JobsDelete(p) ==
    /\ LET r == deletejob(jobs, nextjid, p)
       IN  /\ jobs' = r.jobs
           /\ nextjid' = r.nextjid
           /\ call' = [op |-> "delete", pid |-> p, ok |-> r.ok,
                       jid |-> pid2jid(jobs, p), prevmax |-> 0]
    /\ Silent
    /\ UNCHANGED <<mainVars, pending, hstack, procs>>

NextJobs ==
    \/ \E p \in PidArgs, bg \in BOOLEAN :
          JobsAdd(p, IF bg THEN BG ELSE FG, CmdLine(bg))
    \/ \E p \in PidArgs : JobsDelete(p)

SpecJobs == InitJobs /\ [][NextJobs]_vars

Alive == pc \notin {"exited", "crashed"}

\* ------------------------------------------------------- signal delivery
\* sigaction is called with an empty sa_mask for every handler, so a running
\* handler blocks only its own signal; main blocks SIGCHLD in eval.
\* A handler's frame holds the handler's locals after its first statement:
\* entering a handler and its first statement are one step.

InHandlers == {hstack[i].h : i \in DOMAIN hstack}

BlockedNow == InHandlers \cup (IF blocked THEN {"CHLD"} ELSE {})

\* h: the handler; pid: its local pid; status, sig: what its local status
\* holds (WIFEXITED, WIFSIGNALED with WTERMSIG, WIFSTOPPED with WSTOPSIG).
Frame(h, p, status, sig) == [h |-> h, pid |-> p, status |-> status, sig |-> sig]

\* A pending signal that is not blocked is delivered before anything else
\* happens in the shell or to its children.
Deliverable == "CHLD" \in pending /\ "CHLD" \notin BlockedNow

Ready == Alive /\ ~Deliverable

Top == hstack[Len(hstack)]

Pop == SubSeq(hstack, 1, Len(hstack) - 1)

\* A main that sleeps in sigsuspend is woken by the handler that starts.
Woken == IF pc = "wf_sleep" THEN "wf_woken" ELSE pc

\* --------------------------------------------------------- sigchld_handler

WaitStatus(st) ==
    IF st = "zexit" THEN "exited"
    ELSE IF st = "znoexec" THEN "noexec"
    ELSE IF st \in {"zsig", "zkill"} THEN "signaled"
    ELSE "stopped"

\* The signal a status can carry: the one that terminated or stopped the
\* child; it is first seen by the shell in waitpid's status.
StatusSignals(status) ==
    IF status = "signaled" THEN TermSignals
    ELSE IF status = "stopped" THEN StopSignals
    ELSE {"none"}

\* pid = waitpid(-1, &status, WNOHANG | WUNTRACED), with the children pr and
\* the handler's other frames below: q is the child it returns (a zombie is
\* reaped, a stop is reported once), or 0 when there is none and the loop
\* ends.
Waitpid(pr, below, q) ==
    LET rep == {p \in Pids : pr[p] \in {"zexit", "znoexec", "zsig", "zkill", "stopU"}}
    IN  /\ IF rep = {} THEN q = 0 ELSE q \in rep
        /\ IF q = 0 THEN hstack' = below
           ELSE \E s \in (IF pr[q] = "zkill" THEN {"KILL"}
                         ELSE StatusSignals(WaitStatus(pr[q]))) :
                   hstack' = Append(below, Frame("CHLD", q, WaitStatus(pr[q]), s))
        /\ procs' = IF q = 0 THEN pr
                    ELSE [pr EXCEPT ![q] = IF pr[q] = "stopU" THEN "stopR" ELSE "none"]

\* A SIGCHLD that was pending is delivered: sigchld_handler starts with its
\* first waitpid.
ChldEnter(q) ==
    /\ Alive
    /\ Deliverable
    /\ pending' = pending \ {"CHLD"}
    /\ pc' = Woken
    /\ Waitpid(procs, hstack, q)
    /\ UNCHANGED <<tableVars, call, cmd, mpid, currjob, target, blocked>>
    /\ UNCHANGED <<out, sent>>

\* sigchld_handler without the deletejob of the WIFEXITED branch.
ChldBody_ExitKeepsJob(q) ==
    /\ Ready
    /\ hstack # <<>> /\ Top.h = "CHLD"
    /\ LET p == Top.pid
           cj == getjobpid(jobs, p)
       IN  IF Top.status \in {"exited", "noexec"}
           THEN /\ pc' = pc
                /\ out' = NoLine
                /\ Waitpid(procs, Pop, q)
                /\ UNCHANGED tableVars
           ELSE IF Top.status = "signaled"
           THEN LET r == deletejob(jobs, nextjid, p)
                IN  /\ out' = Line("terminated", pid2jid(jobs, p), p, "INT", "")
                    /\ jobs' = r.jobs
                    /\ nextjid' = r.nextjid
                    /\ pc' = pc
                    /\ Waitpid(procs, Pop, q)
           ELSE IF cj = 0
                THEN /\ pc' = "crashed"
                     /\ q = 0
                     /\ out' = NoLine
                     /\ UNCHANGED <<tableVars, hstack, procs>>
                ELSE /\ jobs' = [jobs EXCEPT ![cj].state = ST]
                     /\ out' = Line("stopped", pid2jid(jobs, p), p, Top.sig, "")
                     /\ nextjid' = nextjid
                     /\ pc' = pc
                     /\ Waitpid(procs, Pop, q)
    /\ sent' = NoSignal
    /\ UNCHANGED <<call, cmd, mpid, currjob, target, blocked, pending>>

\* sigchld_handler with an if in place of the while: one child per run.
ChldBody_OnePerCall(q) ==
    /\ Ready
    /\ hstack # <<>> /\ Top.h = "CHLD"
    /\ q = 0
    /\ LET p == Top.pid
           cj == getjobpid(jobs, p)
       IN  IF Top.status \in {"exited", "noexec", "signaled"}
           THEN LET r == deletejob(jobs, nextjid, p)
                IN  /\ out' = IF Top.status = "signaled"
                              THEN Line("terminated", pid2jid(jobs, p), p, "INT", "")
                              ELSE NoLine
                    /\ jobs' = r.jobs
                    /\ nextjid' = r.nextjid
                    /\ pc' = pc
                    /\ hstack' = Pop
           ELSE IF cj = 0
                THEN /\ pc' = "crashed"
                     /\ out' = NoLine
                     /\ UNCHANGED <<tableVars, hstack>>
                ELSE /\ jobs' = [jobs EXCEPT ![cj].state = ST]
                     /\ out' = Line("stopped", pid2jid(jobs, p), p, Top.sig, "")
                     /\ nextjid' = nextjid
                     /\ pc' = pc
                     /\ hstack' = Pop
    /\ sent' = NoSignal
    /\ UNCHANGED <<call, cmd, mpid, currjob, target, blocked, pending, procs>>

\* The body of the while loop for the child waitpid returned, and the next
\* waitpid.
ChldBody(q) ==
    /\ Ready
    /\ hstack # <<>> /\ Top.h = "CHLD"
    /\ LET p == Top.pid
           cj == getjobpid(jobs, p)
       IN  IF Top.status \in {"exited", "noexec", "signaled"}
           THEN LET r == deletejob(jobs, nextjid, p)
                IN  \* the line of the WIFSIGNALED branch names SIGINT,
                    \* whatever WTERMSIG(status) is
                    /\ out' = IF Top.status = "signaled"
                              THEN Line("terminated", pid2jid(jobs, p), p, "INT", "")
                              ELSE NoLine
                    /\ jobs' = r.jobs
                    /\ nextjid' = r.nextjid
                    /\ pc' = pc
                    /\ Waitpid(procs, Pop, q)
           ELSE IF cj = 0
                THEN \* currjob->state = ST through a NULL currjob
                     /\ pc' = "crashed"
                     /\ q = 0
                     /\ out' = NoLine
                     /\ UNCHANGED <<tableVars, hstack, procs>>
                ELSE /\ jobs' = [jobs EXCEPT ![cj].state = ST]
                     \* signame[WSTOPSIG(status)]
                     /\ out' = Line("stopped", pid2jid(jobs, p), p, Top.sig, "")
                     /\ nextjid' = nextjid
                     /\ pc' = pc
                     /\ Waitpid(procs, Pop, q)
    /\ sent' = NoSignal
    /\ UNCHANGED <<call, cmd, mpid, currjob, target, blocked, pending>>

\* ------------------------------------------------------------- the children
\* A child is "none" (no such process: never forked, or reaped), "run",
\* "noexec" (forked, every execve fails: it prints "Command not found" and
\* calls exit(0)), "stopU" (stopped, not yet reported by waitpid), "stopR"
\* (stopped and reported), or a zombie: "zexit" (exited), "znoexec" (the exit
\* of a "noexec" child), "zsig" (terminated by a signal while running),
\* "zkill" (terminated while stopped: by SIGKILL, the one terminating signal
\* that reaches a stopped process).

\* A child that changes state while sigchld_handler runs is found by a later
\* waitpid of that run or by the next run, with no step of main in between
\* either way: the model lets it change state when the handler has returned.
Quiet == Ready /\ "CHLD" \notin InHandlers

\* The children become pr and the kernel sends SIGCHLD to the shell: it stays
\* pending while it is blocked, and sigchld_handler starts at once otherwise.
\* npc is where main is afterwards.
Notify(pr, q, npc) ==
    /\ pc' = npc
    /\ IF blocked
       THEN /\ q = 0
            /\ procs' = pr
            /\ pending' = pending \cup {"CHLD"}
            /\ UNCHANGED hstack
       ELSE /\ pending' = pending \ {"CHLD"}
            /\ Waitpid(pr, hstack, q)

ChildExit(p, q) ==
    /\ Quiet
    /\ procs[p] \in {"run", "noexec"}
    /\ Notify([procs EXCEPT ![p] = IF procs[p] = "run" THEN "zexit" ELSE "znoexec"], q, Woken)
    /\ UNCHANGED <<tableVars, call, cmd, mpid, currjob, target, blocked>>
    /\ UNCHANGED <<out, sent>>

ChildKilled(p, q) ==
    /\ Quiet
    /\ procs[p] \in {"run", "stopU", "stopR"}
    /\ Notify([procs EXCEPT ![p] = IF procs[p] = "run" THEN "zsig" ELSE "zkill"], q, Woken)
    /\ UNCHANGED <<tableVars, call, cmd, mpid, currjob, target, blocked>>
    /\ UNCHANGED <<out, sent>>

ChildStopped(p, q) ==
    /\ Quiet
    /\ procs[p] = "run"
    /\ Notify([procs EXCEPT ![p] = "stopU"], q, Woken)
    /\ UNCHANGED <<tableVars, call, cmd, mpid, currjob, target, blocked>>
    /\ UNCHANGED <<out, sent>>

\* ------------------------------------------ sigint_handler, sigtstp_handler

\* The handlers without the test of fgpid(jobs): kill is called in any case.
UserSignal_NoCheck(sig) ==
    /\ Ready
    /\ sig \in {"INT", "TSTP"}
    /\ InHandlers \cap {"INT", "TSTP"} = {}
    /\ pc' = Woken
    /\ hstack' = Append(hstack, Frame(sig, fgpid(jobs), "none", "none"))
    /\ UNCHANGED <<tableVars, call, cmd, mpid, currjob, target, blocked, pending, procs>>
    /\ Silent

\* ctrl-c or ctrl-z typed at the keyboard: the handler starts with
\* if ((pid = fgpid(jobs))).  The two handlers only read the job list and
\* send a signal, so one of them running inside the other does what the two
\* do one after the other: the model starts one when the other is not
\* in progress.  Both start inside sigchld_handler, and it inside them.
UserSignal(sig) ==
    /\ Ready
    /\ sig \in {"INT", "TSTP"}
    /\ InHandlers \cap {"INT", "TSTP"} = {}
    /\ pc' = Woken
    /\ LET p == fgpid(jobs)
       IN  hstack' = IF p = 0 THEN hstack ELSE Append(hstack, Frame(sig, p, "none", "none"))
    /\ UNCHANGED <<tableVars, call, cmd, mpid, currjob, target, blocked, pending, procs>>
    /\ Silent

\* kill(-pid, SIGINT) or kill(-pid, SIGTSTP); what the signal does to the
\* child is one of the children's own steps.
IntKill ==
    /\ Ready
    /\ hstack # <<>> /\ Top.h \in {"INT", "TSTP"}
    /\ hstack' = Pop
    /\ UNCHANGED <<tableVars, call, mainVars, pending, procs>>
    /\ out' = NoLine
    /\ sent' = Signal(Top.h, Top.pid)

\* -------------------------------------------------------------------- eval

Main == Ready /\ hstack = <<>>

\* eval and do_bgfg return to the read/eval loop: their locals are gone.
Return ==
    /\ pc' = "prompt"
    /\ cmd' = "none"
    /\ mpid' = 0
    /\ currjob' = 0
    /\ target' = NoTarget

\* eval without sigprocmask(SIG_BLOCK, &mask, NULL) before the fork.
EvalRun_NoBlock(bg) ==
    /\ Main /\ pc = "prompt"
    /\ nextjid <= Capacity(jobs) + MaxJidOver
    /\ cmd' = IF bg THEN "runbg" ELSE "run"
    /\ blocked' = FALSE
    /\ pc' = "ev_fork"
    /\ UNCHANGED <<tableVars, call, mpid, currjob, target, pending, hstack, procs>>
    /\ Silent

\* A command line that is no built-in: eval blocks SIGCHLD before the fork.
EvalRun(bg) ==
    /\ Main /\ pc = "prompt"
    /\ nextjid <= Capacity(jobs) + MaxJidOver
    /\ cmd' = IF bg THEN "runbg" ELSE "run"
    /\ blocked' = TRUE
    /\ pc' = "ev_fork"
    /\ UNCHANGED <<tableVars, call, mpid, currjob, target, pending, hstack, procs>>
    /\ Silent

FreePids == {p \in Pids : procs[p] = "none"}

\* pid = fork(): the child gets a pid no unreaped child has (the lowest one:
\* which one it is makes no difference to the shell); the child's execve
\* succeeds or fails.
EvalFork(execok) ==
    /\ Main /\ pc = "ev_fork"
    /\ FreePids # {}
    /\ LET p == SetMin(FreePids)
       IN  /\ procs' = [procs EXCEPT ![p] = IF execok THEN "run" ELSE "noexec"]
           /\ mpid' = p
    /\ pc' = "ev_add"
    /\ UNCHANGED <<tableVars, call, cmd, currjob, target, blocked, pending, hstack>>
    /\ Silent

\* fork fails: pid = -1.
EvalForkFail ==
    /\ Main /\ pc = "ev_fork"
    /\ FreePids = {}
    /\ mpid' = -1
    /\ pc' = "ev_add"
    /\ UNCHANGED <<tableVars, call, cmd, currjob, target, blocked, pending, hstack, procs>>
    /\ Silent

\* eval with addjob(jobs, pid, FG, cmdline) in both branches.
EvalAddjob_AlwaysFG ==
    /\ Main /\ pc = "ev_add"
    /\ LET r == addjob(jobs, nextjid, mpid, FG, CmdLine(cmd = "runbg"))
       IN  /\ jobs' = r.jobs
           /\ nextjid' = r.nextjid
    /\ pc' = "ev_unblock"
    /\ UNCHANGED <<call, cmd, mpid, currjob, target, blocked, pending, hstack, procs>>
    /\ out' = TooMany(jobs, mpid)
    /\ sent' = NoSignal

\* addjob(jobs, pid, FG or BG, cmdline)
EvalAddjob ==
    /\ Main /\ pc = "ev_add"
    /\ LET r == addjob(jobs, nextjid, mpid, IF cmd = "runbg" THEN BG ELSE FG,
                       CmdLine(cmd = "runbg"))
       IN  /\ jobs' = r.jobs
           /\ nextjid' = r.nextjid
    /\ pc' = "ev_unblock"
    /\ UNCHANGED <<call, cmd, mpid, currjob, target, blocked, pending, hstack, procs>>
    /\ out' = TooMany(jobs, mpid)
    /\ sent' = NoSignal

\* sigprocmask(SIG_UNBLOCK, &mask, NULL), then waitfg(pid) or the printf
EvalUnblock ==
    /\ Main /\ pc = "ev_unblock"
    /\ blocked' = FALSE
    /\ pc' = IF cmd = "runbg" THEN "ev_print" ELSE "wf_check"
    /\ UNCHANGED <<tableVars, call, cmd, mpid, currjob, target, pending, hstack, procs>>
    /\ Silent

\* printf("[%d] (%d) %s", pid2jid(pid), pid, cmdline); eval returns
EvalPrint ==
    /\ Main /\ pc = "ev_print"
    /\ Return
    /\ UNCHANGED <<tableVars, call, blocked, pending, hstack, procs>>
    /\ out' = Line("job", pid2jid(jobs, mpid), mpid, "", CmdLine(TRUE))
    /\ sent' = NoSignal

\* ------------------------------------------------------------------ waitfg

\* waitfg with an if in place of the while: it returns when sigsuspend does.
WaitfgCheck_NoLoop ==
    /\ Main /\ pc \in {"wf_check", "wf_woken"}
    /\ IF fgpid(jobs) # mpid \/ pc = "wf_woken"
       THEN Return
       ELSE pc' = "wf_call" /\ UNCHANGED <<cmd, mpid, currjob, target>>
    /\ UNCHANGED <<tableVars, call, blocked, pending, hstack, procs>>
    /\ Silent

\* if (fgpid(jobs) != pid) return; reached when waitfg is called, and again
\* when sigsuspend has returned: it returns once the handlers that woke it
\* have returned.
WaitfgCheck ==
    /\ Main /\ pc \in {"wf_check", "wf_woken"}
    /\ IF fgpid(jobs) # mpid
       THEN Return
       ELSE pc' = "wf_call" /\ UNCHANGED <<cmd, mpid, currjob, target>>
    /\ UNCHANGED <<tableVars, call, blocked, pending, hstack, procs>>
    /\ Silent

\* sigsuspend(&mask) is entered: main sleeps until a handler has run.
WaitfgSuspend ==
    /\ Main /\ pc = "wf_call"
    /\ pc' = "wf_sleep"
    /\ UNCHANGED <<tableVars, call, cmd, mpid, currjob, target, blocked, pending, hstack, procs>>
    /\ Silent

\* ----------------------------------------------------------------- do_bgfg

\* The characters of argv[1], and isdigit and atoi on them: atoi reads the
\* decimal digits a token starts with and ignores what follows them.
DigitChars == <<"0", "1", "2", "3", "4", "5", "6", "7", "8", "9">>

isdigit(c) == \E n \in 1..Len(DigitChars) : DigitChars[n] = c

DigitValue(c) == (CHOOSE n \in 1..Len(DigitChars) : DigitChars[n] = c) - 1

RECURSIVE atoiFrom(_, _)
atoiFrom(s, acc) ==
    IF s = <<>> \/ ~isdigit(Head(s)) THEN acc
    ELSE atoiFrom(Tail(s), 10 * acc + DigitValue(Head(s)))

atoi(s) == atoiFrom(s, 0)

\* The argument of fg or bg as typed: no argument (the empty sequence), or a
\* token of characters: a number, % and a number, either with a letter after
\* it, a lone %, % and a letter, a letter.
TargetNumbers == 0..(MAXJOBS + MaxJidOver) \cup Pids

Targets ==
    {<<>>, <<"%">>, <<"x">>, <<"%", "x">>}
    \cup {<<DigitChars[n + 1]>> : n \in TargetNumbers}
    \cup {<<"%", DigitChars[n + 1]>> : n \in TargetNumbers}
    \cup {<<DigitChars[n + 1], "x">> : n \in Pids}
    \cup {<<"%", DigitChars[n + 1], "x">> : n \in 1..MAXJOBS}

\* The argument checks of do_bgfg: the slot the token resolves to (0 for
\* none) and the message printed when there is none.
BgfgError(js, tok) ==
    IF tok = <<>> THEN [job |-> 0, error |-> "requires_argument"]
    ELSE IF Head(tok) = "%"
    THEN IF ~(Len(tok) >= 2 /\ isdigit(tok[2]))
         THEN [job |-> 0, error |-> "bad_argument"]
         ELSE [job |-> getjobjid(js, atoi(Tail(tok))), error |-> "no_such_job"]
    ELSE IF atoi(tok) # 0
         THEN [job |-> getjobpid(js, atoi(tok)), error |-> "no_such_process"]
         ELSE [job |-> 0, error |-> "bad_argument"]

\* The lines before "Check if its stopped": the job is looked up, or an
\* error is printed and do_bgfg returns.
BgfgLookup(name, tok) ==
    /\ Main /\ pc = "prompt"
    /\ name \in {"fg", "bg"}
    /\ LET cj == BgfgError(jobs, tok).job
       IN  IF cj = 0
           THEN /\ Return
                /\ out' = Line(BgfgError(jobs, tok).error, 0, 0, "", "")
           ELSE /\ pc' = "bf_check"
                /\ cmd' = name
                /\ currjob' = cj
                /\ target' = jobs[cj]
                /\ mpid' = mpid
                /\ out' = NoLine
    /\ sent' = NoSignal
    /\ UNCHANGED <<tableVars, call, blocked, pending, hstack, procs>>

\* if (currjob->state == ST)
BgfgCheck ==
    /\ Main /\ pc = "bf_check"
    /\ pc' = IF jobs[currjob].state = ST THEN "bf_kill" ELSE "bf_set"
    /\ UNCHANGED <<tableVars, call, cmd, mpid, currjob, target, blocked, pending, hstack, procs>>
    /\ Silent

\* kill(-currjob->pid, SIGCONT): a stopped child of that group runs again;
\* pid 0 addresses the shell's own process group, where nothing is stopped;
\* a failing kill ends the shell through unix_error.
BgfgKill(q) ==
    /\ Main /\ pc = "bf_kill"
    /\ LET p == jobs[currjob].pid
       IN  IF p = 0 \/ (p # 0 /\ procs[p] \notin {"none", "stopU", "stopR"})
           THEN pc' = "bf_set" /\ q = 0 /\ UNCHANGED <<procs, pending, hstack>>
           ELSE IF procs[p] = "none"
           THEN pc' = "exited" /\ q = 0 /\ UNCHANGED <<procs, pending, hstack>>
           ELSE Notify([procs EXCEPT ![p] = "run"], q, "bf_set")
    /\ sent' = Signal("CONT", jobs[currjob].pid)
    /\ out' = IF jobs[currjob].pid # 0 /\ procs[jobs[currjob].pid] = "none"
              THEN Line("kill_failed", 0, 0, "", "")
              ELSE NoLine
    /\ UNCHANGED <<tableVars, call, cmd, mpid, currjob, target, blocked>>

\* do_bgfg with the two assignments exchanged: fg sets BG and bg sets FG.
BgfgSet_Swapped ==
    /\ Main /\ pc = "bf_set"
    /\ jobs' = [jobs EXCEPT ![currjob].state = IF cmd = "fg" THEN BG ELSE FG]
    /\ pc' = "bf_after"
    /\ UNCHANGED <<nextjid, call, cmd, mpid, currjob, target, blocked, pending, hstack, procs>>
    /\ Silent

\* currjob->state = FG or currjob->state = BG
BgfgSet ==
    /\ Main /\ pc = "bf_set"
    /\ jobs' = [jobs EXCEPT ![currjob].state = IF cmd = "fg" THEN FG ELSE BG]
    /\ pc' = "bf_after"
    /\ UNCHANGED <<nextjid, call, cmd, mpid, currjob, target, blocked, pending, hstack, procs>>
    /\ Silent

\* do_bgfg without the waitfg of the fg case.
BgfgAfter_NoWait ==
    /\ Main /\ pc = "bf_after"
    /\ Return
    /\ out' = IF cmd = "fg" THEN NoLine
              ELSE Line("job", pid2jid(jobs, jobs[currjob].pid), jobs[currjob].pid,
                        "", jobs[currjob].cmdline)
    /\ sent' = NoSignal
    /\ UNCHANGED <<tableVars, call, blocked, pending, hstack, procs>>

\* waitfg(currjob->pid) for fg; the printf for bg, and do_bgfg returns
BgfgAfter ==
    /\ Main /\ pc = "bf_after"
    /\ IF cmd = "fg"
       THEN /\ mpid' = jobs[currjob].pid
            /\ pc' = "wf_check"
            /\ currjob' = 0
            /\ target' = NoTarget
            /\ cmd' = cmd
            /\ out' = NoLine
       ELSE /\ Return
            \* printf("[%d] (%d) %s", pid2jid(currjob->pid), currjob->pid,
            \*     currjob->cmdline)
            /\ out' = Line("job", pid2jid(jobs, jobs[currjob].pid), jobs[currjob].pid,
                           "", jobs[currjob].cmdline)
    /\ sent' = NoSignal
    /\ UNCHANGED <<tableVars, call, blocked, pending, hstack, procs>>

\* The built-in quit: exit(0).
Quit ==
    /\ Main /\ pc = "prompt"
    /\ pc' = "exited"
    /\ UNCHANGED <<tableVars, call, cmd, mpid, currjob, target, blocked, pending, hstack, procs>>
    /\ Silent

\* ------------------------------------------------------------ the shell

Next ==
    \/ \E bg \in BOOLEAN : EvalRun(bg)
    \/ \E execok \in BOOLEAN : EvalFork(execok)
    \/ EvalForkFail
    \/ EvalAddjob
    \/ EvalUnblock
    \/ EvalPrint
    \/ WaitfgCheck
    \/ WaitfgSuspend
    \/ \E name \in {"fg", "bg"}, t \in Targets : BgfgLookup(name, t)
    \/ BgfgCheck
    \/ \E q \in 0..MaxPid : BgfgKill(q)
    \/ BgfgSet
    \/ BgfgAfter
    \/ Quit
    \/ \E q \in 0..MaxPid : ChldEnter(q)
    \/ \E q \in 0..MaxPid : ChldBody(q)
    \/ IntKill
    \/ \E p \in Pids, q \in 0..MaxPid : ChildExit(p, q)
    \/ \E p \in Pids, q \in 0..MaxPid : ChildKilled(p, q)
    \/ \E p \in Pids, q \in 0..MaxPid : ChildStopped(p, q)
    \/ \E sig \in {"INT", "TSTP"} : UserSignal(sig)

Spec == Init /\ [][Next]_vars

\* ================================================================ claims

LiveSlots == Live(jobs)

Full == FirstFree(jobs) = 0

\* ----------------------------------------------------------------- C1
\* C1: whatever sequence of addjob and deletejob calls is made on the
\* initialized job list, no two live slots (pid # 0) hold the same jid.
C1_LiveJidsDistinct ==
    \A i, j \in LiveSlots : i # j => jobs[i].jid # jobs[j].jid

\* ----------------------------------------------------------------- C2
FgSlots == {i \in DOMAIN jobs : jobs[i].state = FG}

\* C2: in every reachable state of the shell at most one slot of the job
\* list has state FG.
C2_AtMostOneForeground == Cardinality(FgSlots) <= 1

\* fg has made one job of two the foreground job, and waitfg waits for it.
C2_Witness ==
    /\ cmd = "fg" /\ pc = "wf_call"
    /\ Cardinality(FgSlots) = 1
    /\ \E i \in LiveSlots : jobs[i].state \in {BG, ST}

\* ----------------------------------------------------------------- C3
\* C3: in every reachable state of the shell no two live slots hold the same
\* pid (fork never returns the pid of a child that has not been reaped).
C3_LivePidsDistinct ==
    \A i, j \in LiveSlots : i # j => jobs[i].pid # jobs[j].pid

\* Two live jobs, one of them with a pid that an earlier child had.
C3_Witness ==
    /\ Cardinality(LiveSlots) = 2
    /\ \E i \in LiveSlots : jobs[i].pid = 1 /\ jobs[i].jid > 1

\* ----------------------------------------------------------------- C4
\* C4 as claimed: after deletejob of the job with the largest jid, the jid
\* the next successful addjob assigns equals that largest jid.
C4_NextJidIsPrevMax ==
    (call.op = "add" /\ call.ok /\ call.prevmax > 0) => call.jid = call.prevmax

\* C4 amended: after deletejob of the job with the largest jid, the next
\* successful addjob assigns (largest jid left in the list) + 1.
C4_NextJidIsMaxLeftPlusOne ==
    [][(/\ call.op = "delete" /\ call.ok /\ call.jid >= maxjid(jobs)
        /\ call'.op = "add" /\ call'.ok)
       => call'.jid = maxjid(jobs) + 1]_vars

\* The case of C4 where the two statements differ: the jid assigned is below
\* the largest jid that was freed.
C4_Witness ==
    call.op = "add" /\ call.ok /\ call.prevmax > 0 /\ call.jid < call.prevmax

\* ----------------------------------------------------------------- C5
\* C5: when every slot is live, or when pid < 1, addjob returns false and
\* leaves every slot and nextjid as they were.
C5_FailedAddChangesNothing ==
    [][(call'.op = "add" /\ call' # call /\ (Full \/ call'.pid < 1))
       => (~call'.ok /\ jobs' = jobs /\ nextjid' = nextjid /\ pc' = pc)]_vars

C5_Witness ==
    call.op = "add" /\ ~call.ok /\ call.pid >= 1 /\ Full
    /\ \E i \in LiveSlots : jobs[i].state = BG /\ jobs[i].cmdline = "c &"

\* ----------------------------------------------------------------- C6
HasJob(p, state) == \E i \in DOMAIN jobs : jobs[i].pid = p /\ jobs[i].state = state

WaitPcs == {"wf_check", "wf_call", "wf_sleep", "wf_woken"}

\* C6: after eval has launched a job without '&', it does not return to the
\* read/eval loop while the job list holds that job's entry in state FG: when
\* it returns, the entry is gone or its state is ST.
C6_NoReturnWhileForeground ==
    [][(cmd = "run" /\ pc \in WaitPcs /\ pc' = "prompt")
       => (~HasJob(mpid, FG)
           /\ \A i \in LiveSlots : jobs[i].pid = mpid => jobs[i].state = ST)]_vars

\* waitfg is about to return for a launched job that the handler has set to ST.
C6_Witness ==
    /\ cmd = "run" /\ pc = "wf_woken" /\ hstack = <<>>
    /\ HasJob(mpid, ST)

\* ----------------------------------------------------------------- C7
\* C7 as claimed: for every launch with '&' whose fork succeeds, the job list
\* holds an entry for the child's pid in state BG when SIGCHLD is unblocked,
\* and eval does not enter waitfg.
C7_BackgroundEntryAtUnblock ==
    /\ (cmd = "runbg" /\ pc = "ev_unblock" /\ mpid > 0) => HasJob(mpid, BG)
    /\ cmd = "runbg" => pc \notin WaitPcs

\* C7 amended: for every launch with '&' whose fork succeeds while the job
\* list has a free slot, the list holds an entry for the child's pid in state
\* BG when SIGCHLD is unblocked; when every slot is live, addjob adds nothing;
\* in both cases eval does not enter waitfg.
C7_BackgroundEntryUnlessFull ==
    /\ (cmd = "runbg" /\ pc = "ev_unblock" /\ mpid > 0)
          => (HasJob(mpid, BG) \/ (Full /\ \A i \in LiveSlots : jobs[i].pid # mpid))
    /\ cmd = "runbg" => pc \notin WaitPcs

C7_Witness ==
    cmd = "runbg" /\ pc = "ev_unblock" /\ mpid > 0 /\ HasJob(mpid, BG) /\ ~Full

\* ----------------------------------------------------------------- C8
\* C8: once sigchld_handler has removed the job waitfg waits for, or has set
\* it to ST, waitfg returns without another signal: main is never asleep in
\* sigsuspend, no handler running and no signal pending, when the job is no
\* longer the foreground job.
C8_NoSleepAfterJobLeftForeground ==
    ~(pc = "wf_sleep" /\ hstack = <<>> /\ pending = {} /\ fgpid(jobs) # mpid)

\* ----------------------------------------------------------------- C9
ChldFramePids == {hstack[k].pid : k \in {n \in DOMAIN hstack : hstack[n].h = "CHLD"}}

\* C9: between the fork of a child and the addjob of its job no
\* sigchld_handler runs and the child is not reaped; and the job list keeps
\* no live entry for a process that has been reaped (the entry of a child
\* that sigchld_handler is just processing is about to go).
C9_NotReapedBeforeRegistered ==
    /\ pc = "ev_add" => (blocked /\ "CHLD" \notin InHandlers
                         /\ (mpid > 0 => procs[mpid] # "none"))
    /\ \A i \in LiveSlots :
          procs[jobs[i].pid] = "none" => jobs[i].pid \in ChldFramePids

\* The child has exited before addjob, and its SIGCHLD is held pending.
C9_Witness ==
    /\ pc = "ev_add" /\ mpid > 0
    /\ procs[mpid] \in {"zexit", "znoexec", "zsig", "zkill"}
    /\ "CHLD" \in pending

BodyStep ==
    /\ hstack # <<>> /\ Top.h = "CHLD"
    /\ \/ Len(hstack') < Len(hstack)
       \/ (Len(hstack') = Len(hstack) /\ hstack'[Len(hstack)] # Top)

Unreported == {p \in Pids : procs[p] \in {"zexit", "znoexec", "zsig", "zkill", "stopU"}}

\* C11: one run of sigchld_handler processes every change of state that is
\* there when it runs: when no sigchld_handler is in progress and no SIGCHLD
\* is pending, no child that has exited, been killed or been stopped is left
\* unreported, however many changes one SIGCHLD stood for.
C11_HandlerDrainsAll ==
    ("CHLD" \notin InHandlers /\ "CHLD" \notin pending) => Unreported = {}

\* sigchld_handler runs for a SIGCHLD that stood for two changes of state: it
\* has reaped one child, and another one is still to be reported.
C11_Witness ==
    /\ hstack # <<>> /\ Top.h = "CHLD"
    /\ "CHLD" \notin pending
    /\ Unreported # {}
    /\ pc = "wf_check"

\* ---------------------------------------------------------------- C12
\* C12: when sigchld_handler has processed the normal exit of a child p that
\* has a job (in any state), no live slot has pid p, getjobpid(p) and
\* pid2jid(p) find nothing, the job's slot is empty, no other slot and no
\* line of output has been written.
C12_ExitedJobRemoved ==
    [][(BodyStep /\ Top.status \in {"exited", "noexec"} /\ getjobpid(jobs, Top.pid) # 0)
       => (/\ \A i \in DOMAIN jobs : jobs'[i].pid # Top.pid
           /\ getjobpid(jobs', Top.pid) = 0
           /\ pid2jid(jobs', Top.pid) = 0
           /\ jobs'[getjobpid(jobs, Top.pid)] = clearjob(jobs[getjobpid(jobs, Top.pid)])
           /\ \A i \in DOMAIN jobs : i # getjobpid(jobs, Top.pid) => jobs'[i] = jobs[i]
           /\ out' = NoLine)]_vars

\* sigchld_handler has reaped the exit of a background job while another
\* job is in the list.
C12_Witness ==
    /\ hstack # <<>> /\ Top.h = "CHLD" /\ Top.status = "exited"
    /\ HasJob(Top.pid, BG)
    /\ \E i \in LiveSlots : jobs[i].pid # Top.pid

\* ---------------------------------------------------------------- C13
\* C13: for every child with a job that a signal s has terminated,
\* sigchld_handler writes a line with the job's jid, its pid and the name of
\* s, and the job is gone afterwards (the jid in the line is the one the job
\* had).
C13_TerminationLineNamesSignal ==
    [][(BodyStep /\ Top.status = "signaled" /\ getjobpid(jobs, Top.pid) # 0)
       => (/\ out' = Line("terminated", pid2jid(jobs, Top.pid), Top.pid, Top.sig, "")
           /\ getjobpid(jobs', Top.pid) = 0)]_vars

\* ---------------------------------------------------------------- C14
\* C14: for every child with a job that waitpid reports as stopped,
\* sigchld_handler sets the job's state to ST and changes nothing else in the
\* job list (the job stays, with its pid, jid and cmdline) nor nextjid, and
\* writes a line with the job's jid, its pid and the name of the signal that
\* stopped it.
C14_StoppedJobKeptAndReported ==
    [][(BodyStep /\ Top.status = "stopped" /\ getjobpid(jobs, Top.pid) # 0)
       => (/\ jobs' = [jobs EXCEPT ![getjobpid(jobs, Top.pid)].state = ST]
           /\ nextjid' = nextjid
           /\ out' = Line("stopped", jobs[getjobpid(jobs, Top.pid)].jid, Top.pid,
                          Top.sig, ""))]_vars

\* waitpid has reported the stop, by SIGSTOP, of a background job with jid 3
\* that is in the first slot.
C14_Witness ==
    /\ hstack # <<>> /\ Top.h = "CHLD" /\ Top.status = "stopped" /\ Top.sig = "STOP"
    /\ jobs[1].pid = Top.pid /\ jobs[1].jid = 3 /\ jobs[1].state = BG

\* ---------------------------------------------------------------- C15
UserHandlers == {"INT", "TSTP"}

\* sigint_handler or sigtstp_handler starts and finds a foreground pid.
UserHandlerStarts ==
    /\ Len(hstack') = Len(hstack) + 1
    /\ hstack'[Len(hstack')].h \in UserHandlers

\* sigint_handler or sigtstp_handler calls kill and returns.
UserHandlerKills ==
    /\ hstack # <<>> /\ Top.h \in UserHandlers
    /\ hstack' = Pop

\* C15: sigint_handler and sigtstp_handler change neither the job list nor
\* nextjid; with fgpid(jobs) = p # 0 they send one signal, SIGINT resp.
\* SIGTSTP, to the process group p, and with fgpid(jobs) = 0 they send none:
\* a SIGINT or SIGTSTP is sent only by the one kill of a handler that
\* has found a foreground pid.
C15_UserHandlersForwardOnce ==
    [][/\ UserHandlerStarts
          => (/\ fgpid(jobs) # 0
              /\ hstack'[Len(hstack')].pid = fgpid(jobs)
              /\ sent' = NoSignal
              /\ jobs' = jobs /\ nextjid' = nextjid)
       /\ UserHandlerKills
          => (/\ sent' = Signal(Top.h, Top.pid)
              /\ Top.pid # 0
              /\ jobs' = jobs /\ nextjid' = nextjid)
       /\ (sent'.sig \in UserHandlers /\ sent' # sent) => UserHandlerKills]_vars

\* sigtstp_handler has sent SIGTSTP to the group of the foreground job,
\* while another job is in the list.
C15_Witness ==
    /\ sent.sig = "TSTP" /\ HasJob(sent.pid, FG)
    /\ Cardinality(LiveSlots) = 2

\* ---------------------------------------------------------------- C16
\* The steps the shell takes by itself once a command line has been read or a
\* signal has arrived: the statements of eval, do_bgfg and waitfg
\* (MainProgress), the delivery of a pending SIGCHLD and the statements of
\* sigchld_handler (ChldProgress), and the kill of sigint_handler and
\* sigtstp_handler (IntKill).  Typing a command line, typing ctrl-c or
\* ctrl-z, and what the children do are not among them: nothing obliges the
\* user or a child to act.
MainProgress ==
    \/ \E execok \in BOOLEAN : EvalFork(execok)
    \/ EvalForkFail
    \/ EvalAddjob
    \/ EvalUnblock
    \/ EvalPrint
    \/ WaitfgCheck
    \/ WaitfgSuspend
    \/ BgfgCheck
    \/ \E q \in 0..MaxPid : BgfgKill(q)
    \/ BgfgSet
    \/ BgfgAfter

ChldProgress ==
    \/ \E q \in 0..MaxPid : ChldEnter(q)
    \/ \E q \in 0..MaxPid : ChldBody(q)

\* The shell with a job list of FairJobs slots, and with the guarantee that
\* main and each handler go on: a statement that can be executed again and
\* again is executed, however often signals arrive in between.
SpecFair ==
    /\ InitWith(FairJobs)
    /\ [][Next]_vars
    /\ SF_vars(MainProgress)
    /\ SF_vars(ChldProgress)
    /\ SF_vars(IntKill)

\* waitpid has reported that the foreground job waitfg waits for has been
\* terminated by SIGINT, after the shell's sigint_handler has sent SIGINT to
\* its group.
InterruptedForeground ==
    /\ sent = Signal("INT", mpid)
    /\ pc \in WaitPcs
    /\ HasJob(mpid, FG)
    /\ hstack # <<>> /\ Top = Frame("CHLD", mpid, "signaled", "INT")

\* C16: when SIGINT reaches the shell while there is a foreground job, and
\* the job's process dies from the SIGINT the shell forwards, the job is
\* eventually removed from the job list and the read/eval loop that waits
\* for it returns to the prompt.
C16_InterruptedJobReturnsToPrompt ==
    InterruptedForeground ~> (pc = "prompt")

\* ---------------------------------------------------------------- C17
\* C17: fg on a job whose state is ST sends SIGCONT to the process group of
\* that job (a job that is in the list, still with state ST: the state is
\* changed after the kill), then sets the state to FG, and does not return
\* to the prompt before the job is gone or its state is ST again; SIGCONT is
\* sent only when the test currjob->state == ST has succeeded.
C17_FgContinuesThenWaits ==
    [][/\ (cmd = "fg" /\ pc = "bf_kill" /\ pc' \notin {pc, "crashed"})
          => (/\ jobs[currjob].pid # 0
              /\ jobs[currjob].state = ST
              /\ sent' = Signal("CONT", jobs[currjob].pid)
              /\ jobs' = jobs)
       /\ (cmd = "fg" /\ sent'.sig = "CONT" /\ sent' # sent) => pc = "bf_kill"
       /\ (cmd = "fg" /\ pc = "bf_check" /\ pc' = "bf_kill") => jobs[currjob].state = ST
       /\ (cmd = "fg" /\ pc = "bf_set" /\ pc' = "bf_after") => jobs'[currjob].state = FG
       /\ (cmd = "fg" /\ pc \in WaitPcs /\ pc' = "prompt")
          => \A i \in LiveSlots : jobs[i].pid = mpid => jobs[i].state = ST]_vars

\* ---------------------------------------------------------------- C18
\* C18: bg on a job whose state is ST sends SIGCONT to the process group of
\* that job, sets the job's state to BG, prints a line with that job's jid,
\* pid and cmdline, and returns to the prompt without entering waitfg.
BgStopped == cmd = "bg" /\ target.state = ST

C18_BgContinuesAndAcknowledges ==
    [][BgStopped =>
          /\ (pc = "bf_check" /\ pc' \notin {pc, "crashed"}) => pc' = "bf_kill"
          /\ (pc = "bf_kill" /\ pc' \notin {pc, "crashed"})
             => (pc' = "bf_set" /\ sent' = Signal("CONT", target.pid))
          /\ (pc = "bf_set" /\ pc' \notin {pc, "crashed"})
             => (pc' = "bf_after" /\ jobs'[currjob] = [target EXCEPT !.state = BG])
          /\ (pc = "bf_after" /\ pc' \notin {pc, "crashed"})
             => (/\ pc' = "prompt"
                 /\ out' = Line("job", target.jid, target.pid, "", target.cmdline))
          /\ pc' \notin WaitPcs]_vars

\* ---------------------------------------------------------------- C19
\* The slots that hold the same live job before and after a step.
SameJob == {i \in DOMAIN jobs : jobs[i].pid # 0 /\ jobs'[i].pid = jobs[i].pid}

\* C19 as stated: no live job's state changes in one step from BG to FG or
\* from FG to BG.
C19_NoDirectFgBg ==
    [][\A i \in SameJob :
          /\ ~(jobs[i].state = FG /\ jobs'[i].state = BG)
          /\ ~(jobs[i].state = BG /\ jobs'[i].state = FG)]_vars

\* C19 as the code has it: no live job's state changes in one step from FG
\* to BG; a change from BG to FG is made by the fg command alone, in do_bgfg's
\* assignment, on the job the command names ("BG -> FG : fg command").
C19_OnlyFgMovesBackgroundToForeground ==
    [][\A i \in SameJob :
          /\ ~(jobs[i].state = FG /\ jobs'[i].state = BG)
          /\ (jobs[i].state = BG /\ jobs'[i].state = FG)
             => (cmd = "fg" /\ pc = "bf_set" /\ i = currjob /\ jobs[i] = target)]_vars

C19_Witness ==
    /\ cmd = "fg" /\ pc = "bf_after"
    /\ target.state = BG
    /\ jobs[currjob] = [target EXCEPT !.state = FG]
    /\ procs[target.pid] = "run"

\* ---------------------------------------------------------------- C20
\* What a reader of the command line takes the token for: % and a decimal
\* number is a job id, a decimal number other than 0 is a process id, and
\* every other token is malformed.
TokenDigits(tok) == IF Head(tok) = "%" THEN Tail(tok) ELSE tok

WellFormed(tok) ==
    /\ tok # <<>>
    /\ TokenDigits(tok) # <<>>
    /\ \A k \in 1..Len(TokenDigits(tok)) : isdigit(TokenDigits(tok)[k])
    /\ Head(tok) # "%" => atoi(tok) # 0

\* The live slots a well-formed token names.
Named(tok) ==
    IF Head(tok) = "%"
    THEN {i \in LiveSlots : jobs[i].jid = atoi(Tail(tok))}
    ELSE {i \in LiveSlots : jobs[i].pid = atoi(tok)}

BadTarget(tok) == tok = <<>> \/ ~WellFormed(tok) \/ Named(tok) = {}

\* The error of each case; a malformed token that starts with a number may
\* be reported as either of the last two.
ErrorsFor(tok) ==
    IF tok = <<>> THEN {"requires_argument"}
    ELSE IF WellFormed(tok) THEN {"no_such_job", "no_such_process"}
    ELSE IF TokenDigits(tok) # <<>> /\ isdigit(Head(TokenDigits(tok)))
    THEN {"bad_argument", "no_such_job", "no_such_process"}
    ELSE {"bad_argument"}

\* C20: fg or bg with no argument, with a malformed token, or with a token
\* that names no live job prints the error of that case (one for a missing
\* argument, one for a malformed token, one for an unknown job or process),
\* sends no signal, leaves the job list and nextjid unchanged and is back at
\* the prompt.
C20_BadTargetReported ==
    [][\A name \in {"fg", "bg"}, tok \in Targets :
          (BgfgLookup(name, tok) /\ BadTarget(tok))
          => (/\ out'.kind \in ErrorsFor(tok)
              /\ sent' = NoSignal
              /\ jobs' = jobs /\ nextjid' = nextjid
              /\ pc' = "prompt")]_vars

\* ---------------------------------------------------------------- C21
\* C21: while sigchld_handler is running, neither sigint_handler nor
\* sigtstp_handler is running inside it: no frame of those two handlers lies
\* above a frame of sigchld_handler.
C21_UserHandlersNotInsideChld ==
    \A i, j \in DOMAIN hstack :
        (i < j /\ hstack[i].h = "CHLD") => hstack[j].h \notin UserHandlers

\* ---------------------------------------------------------------- C22
\* The largest jid of a live slot (0 when no slot is live).
MaxLiveJid(js) == SetMax({js[i].jid : i \in Live(js)} \cup {0})

C23_SignalsGoToLiveJobs ==
    [][(sent' # sent /\ sent'.sig # "none")
       => (/\ sent'.pid # 0
           /\ \E i \in LiveSlots : jobs[i].pid = sent'.pid)]_vars

\* ---------------------------------------------------------------- C24
\* fg has found its job, and the process of that job has exited and been
\* reaped, or has stopped (after the SIGCONT of do_bgfg, if one was due) and
\* the stop has been reported: in do_bgfg the job is target, in waitfg it is
\* the job of waitfg's argument (0 when the slot was empty at the call).
FgTargetDone ==
    /\ cmd = "fg"
    /\ \/ pc \in {"bf_check", "bf_kill"} /\ procs[target.pid] = "none"
       \/ pc \in {"bf_set", "bf_after"} /\ procs[target.pid] \in {"none", "stopR"}
       \/ pc \in WaitPcs /\ (mpid = 0 \/ procs[mpid] \in {"none", "stopR"})
    /\ hstack = <<>> /\ "CHLD" \notin pending

\* C24: once the process of the job an fg command has found has exited or
\* stopped, the shell gets back to the prompt, wherever in do_bgfg or waitfg
\* sigchld_handler has run.
C24_FgReturnsToPrompt == FgTargetDone ~> (pc = "prompt")

\* ---------------------------------------------------------------- C25
\* C25: in every reachable state every slot of the job list is either empty
\* (pid 0, jid 0, state UNDEF) or live (pid > 0, jid > 0, state FG, BG or
\* ST); in particular no slot has pid 0 and a state other than UNDEF.
C25_SlotsEmptyOrLive ==
    \A i \in DOMAIN jobs :
        \/ jobs[i].pid = 0 /\ jobs[i].jid = 0 /\ jobs[i].state = UNDEF
        \/ jobs[i].pid > 0 /\ jobs[i].jid > 0 /\ jobs[i].state \in {FG, BG, ST}

\* ---------------------------------------------------------------- C26
\* C26: whenever sigchld_handler has a stopped child to report (waitpid has
\* returned its pid with WIFSTOPPED), the job list holds a job with that pid,
\* and the handler never writes ST through a NULL job pointer.
C26_StoppedChildHasJob ==
    /\ \A k \in DOMAIN hstack :
          (hstack[k].h = "CHLD" /\ hstack[k].status = "stopped")
          => getjobpid(jobs, hstack[k].pid) # 0
    /\ pc # "crashed"

\* ---------------------------------------------------------------- C27
\* C27: for every sequence of addjob and deletejob calls, every jid of a live
\* slot is in 1..N and nextjid is in 1..N, N being the capacity of the list.
C27_JidsWithinCapacity ==
    /\ \A i \in LiveSlots : jobs[i].jid \in 1..Capacity(jobs)
    /\ nextjid \in 1..Capacity(jobs)

====
